---- MODULE Spec2Model ----
(***************************************************************************)
(* Model of bilstm_original/train_softmax_bi.py: the train() loop, its     *)
(* per-batch construction of the forward/backward input and target         *)
(* tensors, the optimizer/scheduler calls and the checkpoint writes.       *)
(*                                                                         *)
(* An embedding is modelled by a positive integer (the garment it was      *)
(* computed from); the zero vector written by pad_sequence is 0.  A 2-D    *)
(* tensor is a sequence of embeddings, a padded 3-D tensor a sequence of   *)
(* rows.  Python index k of a tensor is TLA+ index k + 1.                  *)
(***************************************************************************)
EXTENDS Integers, Sequences, FiniteSets, TLC

\* ------------------------------------------------------------------ bounds
MaxOutfits == 2
MaxLen == 4
MaxSkew == 1
Epochs == 2
TrainBatches == 2
ValBatches == 1

\* ------------------------------------------------------ program constants
StepSize == 2
GammaDen == 2
BaseLrMilli == 200
ClipNormTenths == 5

\* the zero vector pad_sequence fills with
Pad == 0

\* gradient norms (in tenths) backward() may leave: below and above the clip
GradNorms == {3, 8}

\* values a cross-entropy loss may take
LossVals == {1, 2}

comment == "sfx"

VARIABLES
  epoch, phase, pc, batch_num,
  lengths, emb_seqs,
  input_emb_list, target_emb_list,
  f_input_embs, b_target_embs, f_target_embs, b_input_embs,
  seq_lengths,
  f_loss, b_loss, all_loss,
  grad,
  params, last_epoch, lr,
  files,
  ops, opt_steps

vars == <<epoch, phase, pc, batch_num, lengths, emb_seqs, input_emb_list,
          target_emb_list, f_input_embs, b_target_embs, f_target_embs,
          b_input_embs, seq_lengths, f_loss, b_loss, all_loss, grad, params,
          last_epoch, lr, files, ops, opt_steps>>

batchVars == <<lengths, emb_seqs, input_emb_list, target_emb_list,
               f_input_embs, b_target_embs, f_target_embs, b_input_embs,
               seq_lengths>>
lossVars == <<f_loss, b_loss, all_loss>>
loopVars == <<epoch, phase, batch_num>>
optVars == <<params, last_epoch, lr>>

\* ----------------------------------------------------------------- helpers
Min(a, b) == IF a < b THEN a ELSE b
Max(a, b) == IF a > b THEN a ELSE b

RECURSIVE Pow(_, _)
Pow(b, e) == IF e = 0 THEN 1 ELSE b * Pow(b, e - 1)

\* Python's normalisation of one slice bound on a sequence of length n
SliceIndex(k, n) == IF k < 0 THEN Max(k + n, 0) ELSE Min(k, n)

\* tensor[a:b] on dimension 0
PySlice(t, a, b) ==
  LET lo == SliceIndex(a, Len(t))
      hi == SliceIndex(b, Len(t))
  IN  IF lo < hi THEN SubSeq(t, lo + 1, hi) ELSE <<>>

Zeros(n) == [k \in 1..n |-> Pad]

RECURSIVE MaxSize(_)
MaxSize(seqs) ==
  IF seqs = <<>> THEN 0 ELSE Max(Len(Head(seqs)), MaxSize(Tail(seqs)))

\* rnn_utils.pad_sequence(sequences, batch_first=True)
pad_sequence(seqs) ==
  LET T == MaxSize(seqs)
  IN  [i \in 1..Len(seqs) |-> seqs[i] \o Zeros(T - Len(seqs[i]))]

\* a flip that leaves the order as it is
flip_tensor_unflipped(tensor) == tensor

\* flip_tensor: index_select with idx = size-1, ..., 0
flip_tensor(tensor) ==
  [i \in 1..Len(tensor) |-> tensor[Len(tensor) - i + 1]]

\* the slicing loop with the offset advanced by the shifted length
RECURSIVE InputLoopShortOffset(_, _, _, _)
InputLoopShortOffset(emb, lens, i, start) ==
  IF i > Len(lens) THEN <<>>
  ELSE <<PySlice(emb, start, start + lens[i] - 1)>>
         \o InputLoopShortOffset(emb, lens, i + 1, start + lens[i] - 1)

\* the loop of lines 117-121 from outfit i on, with running offset start
RECURSIVE InputLoop(_, _, _, _)
InputLoop(emb, lens, i, start) ==
  IF i > Len(lens) THEN <<>>
  ELSE <<PySlice(emb, start, start + lens[i] - 1)>>
         \o InputLoop(emb, lens, i + 1, start + lens[i])

\* the loop of lines 130-134
RECURSIVE TargetLoop(_, _, _, _)
TargetLoop(emb, lens, i, start) ==
  IF i > Len(lens) THEN <<>>
  ELSE <<PySlice(emb, start + 1, start + lens[i])>>
         \o TargetLoop(emb, lens, i + 1, start + lens[i])

SeqLengths(lens) == [i \in 1..Len(lens) |-> lens[i] - 1]

\* pack_padded_sequence(padded, lens, batch_first=True) raises: an empty
\* tensor, a length <= 0, or lengths not in decreasing order (enforce_sorted)
PackRaises(padded, lens) ==
  \/ Len(padded) = 0
  \/ Len(padded[1]) = 0
  \/ Len(lens) # Len(padded)
  \/ lens[Len(lens)] <= 0
  \/ \E i \in 1..(Len(lens) - 1) : lens[i] < lens[i + 1]

\* the rows of timestep t: those of the first c sequences
StepRows(padded, t, c) == [b \in 1..c |-> padded[b][t]]

BatchSizeAt(lens, t) == Cardinality({b \in 1..Len(lens) : lens[b] >= t})

\* PackedSequence.data: timestep after timestep, the time slice clamped to
\* the padded width
RECURSIVE PackFrom(_, _, _)
PackFrom(padded, lens, t) ==
  IF t > Min(lens[1], Len(padded[1])) THEN <<>>
  ELSE StepRows(padded, t, BatchSizeAt(lens, t)) \o PackFrom(padded, lens, t + 1)

\* padding removal row after row instead of timestep after timestep
RECURSIVE PackRowMajor(_, _)
PackRowMajor(padded, lens) ==
  IF padded = <<>> THEN <<>>
  ELSE SubSeq(Head(padded), 1, Min(Head(lens), Len(Head(padded))))
         \o PackRowMajor(Tail(padded), Tail(lens))

pack_padded_sequence(padded, lens) == PackFrom(padded, lens, 1)

\* StepLR: lr = base_lr * gamma ^ (last_epoch // step_size), in thousandths
StepLR(e) == BaseLrMilli \div Pow(GammaDen, e \div StepSize)

\* clip_grad_norm_(params, 0.5): the norm after the call, in tenths
clip_grad_norm(norm) == IF norm > ClipNormTenths THEN ClipNormTenths ELSE norm

CkptName(base) == <<base, comment>>

\* ------------------------------------------------------------------ inputs
RECURSIVE SeqsUpTo(_, _)
SeqsUpTo(S, n) ==
  IF n = 0 THEN {<<>>}
  ELSE LET shorter == SeqsUpTo(S, n - 1)
       IN  shorter \cup {Append(s, x) : s \in {q \in shorter : Len(q) = n - 1}, x \in S}

\* what the loader may hand over: 1..MaxOutfits outfit lengths
LengthLists == {l \in SeqsUpTo(0..MaxLen, MaxOutfits) : Len(l) >= 1}

RECURSIVE Sum(_)
Sum(lens) == IF lens = <<>> THEN 0 ELSE Head(lens) + Sum(Tail(lens))

\* the number of images that comes with lengths l: sum(l), or off it by at
\* most MaxSkew when the loader breaks its promise
ImageCounts(l) == Max(0, Sum(l) - MaxSkew)..(Sum(l) + MaxSkew)

\* encoder_cnn(images): one embedding per image
Embeddings(n) == [k \in 1..n |-> k]

\* ------------------------------------------------------------------- state
Init ==
  /\ epoch = 1
  /\ phase = "train"
  /\ pc = "epoch_start"
  /\ batch_num = 0
  /\ lengths = <<>>
  /\ emb_seqs = <<>>
  /\ input_emb_list = <<>>
  /\ target_emb_list = <<>>
  /\ f_input_embs = <<>>
  /\ b_target_embs = <<>>
  /\ f_target_embs = <<>>
  /\ b_input_embs = <<>>
  /\ seq_lengths = <<>>
  /\ f_loss = 0
  /\ b_loss = 0
  /\ all_loss = 0
  /\ grad = [state |-> "none", norm |-> 0]
  /\ params = [encoder_cnn |-> <<"encoder_cnn", 0>>,
               f_rnn |-> <<"f_rnn", 0>>,
               b_rnn |-> <<"b_rnn", 0>>]
  /\ last_epoch = 0
  /\ lr = StepLR(0)
  /\ files = << >>
  /\ ops = <<>>
  /\ opt_steps = 0

\* an epoch start that does not advance the schedule
EpochStartNoSchedule ==
  /\ pc = "epoch_start"
  /\ phase' = "train"
  /\ batch_num' = 0
  /\ opt_steps' = 0
  /\ ops' = <<>>
  /\ pc' = "fetch"
  /\ UNCHANGED <<epoch, batchVars, lossVars, grad, params, last_epoch, lr, files>>

\* lines 106-110: scheduler.step() and train mode
EpochStart ==
  /\ pc = "epoch_start"
  /\ last_epoch' = last_epoch + 1
  /\ lr' = StepLR(last_epoch + 1)
  /\ phase' = "train"
  /\ batch_num' = 0
  /\ opt_steps' = 0
  /\ ops' = <<>>
  /\ pc' = "fetch"
  /\ UNCHANGED <<epoch, batchVars, lossVars, grad, params, files>>

\* lines 111-114: the next batch of the loader and its embeddings.  The
\* locals of the previous iteration are dead here (each is assigned again
\* before it is read), so they are cleared.
Fetch(n) ==
  /\ batch_num' = n + 1
  /\ \E l \in LengthLists : \E k \in ImageCounts(l) :
       /\ lengths' = l
       /\ emb_seqs' = Embeddings(k)
  /\ input_emb_list' = <<>>
  /\ target_emb_list' = <<>>
  /\ f_input_embs' = <<>>
  /\ b_target_embs' = <<>>
  /\ f_target_embs' = <<>>
  /\ b_input_embs' = <<>>
  /\ seq_lengths' = <<>>
  /\ f_loss' = 0
  /\ b_loss' = 0
  /\ all_loss' = 0
  /\ ops' = <<>>
  /\ pc' = "slice"
  /\ UNCHANGED <<epoch, phase, grad, optVars, files, opt_steps>>

TrainFetch ==
  /\ pc = "fetch" /\ phase = "train"
  /\ batch_num < TrainBatches
  /\ Fetch(batch_num)

\* lines 116-140
TrainSlice ==
  /\ pc = "slice" /\ phase = "train"
  /\ LET ins == InputLoop(emb_seqs, lengths, 1, 0)
         tgs == TargetLoop(emb_seqs, lengths, 1, 0)
     IN  /\ input_emb_list' = ins
         /\ f_input_embs' = pad_sequence(ins)
         /\ b_target_embs' = pad_sequence([i \in 1..Len(ins) |-> flip_tensor(ins[i])])
         /\ target_emb_list' = tgs
         /\ f_target_embs' = pad_sequence(tgs)
         /\ b_input_embs' = pad_sequence([i \in 1..Len(tgs) |-> flip_tensor(tgs[i])])
  /\ ops' = Append(ops, "slice")
  /\ pc' = "pack"
  /\ UNCHANGED <<loopVars, lengths, emb_seqs, seq_lengths, lossVars, grad,
                 optVars, files, opt_steps>>

\* lines 142-148
TrainPack ==
  /\ pc = "pack" /\ phase = "train"
  /\ seq_lengths' = SeqLengths(lengths)
  /\ IF PackRaises(f_target_embs, SeqLengths(lengths))
     THEN /\ pc' = "aborted"
          /\ ops' = Append(ops, "raise")
          /\ UNCHANGED <<f_target_embs, b_target_embs>>
     ELSE /\ f_target_embs' = pack_padded_sequence(f_target_embs, SeqLengths(lengths))
          /\ b_target_embs' = pack_padded_sequence(b_target_embs, SeqLengths(lengths))
          /\ ops' = Append(ops, "pack")
          /\ pc' = "forward"
  /\ UNCHANGED <<loopVars, lengths, emb_seqs, input_emb_list, target_emb_list,
                 f_input_embs, b_input_embs, lossVars, grad, optVars, files,
                 opt_steps>>

\* lines 150-156
TrainForward ==
  /\ pc = "forward" /\ phase = "train"
  /\ \E f \in LossVals, b \in LossVals :
       /\ f_loss' = f
       /\ b_loss' = b
       /\ all_loss' = f + b
  /\ ops' = Append(ops, "loss")
  /\ pc' = "zero_grad"
  /\ UNCHANGED <<loopVars, batchVars, grad, optVars, files, opt_steps>>

\* lines 158-160
TrainZeroGrad ==
  /\ pc = "zero_grad"
  /\ grad' = [state |-> "zero", norm |-> 0]
  /\ ops' = Append(ops, "zero_grad")
  /\ pc' = "backward"
  /\ UNCHANGED <<loopVars, batchVars, lossVars, optVars, files, opt_steps>>

\* line 161
TrainBackward ==
  /\ pc = "backward"
  /\ \E g \in GradNorms : grad' = [state |-> "computed", norm |-> g]
  /\ ops' = Append(ops, "backward")
  /\ pc' = "clip"
  /\ UNCHANGED <<loopVars, batchVars, lossVars, optVars, files, opt_steps>>

\* line 162
TrainClip ==
  /\ pc = "clip"
  /\ grad' = [state |-> "clipped", norm |-> clip_grad_norm(grad.norm)]
  /\ ops' = Append(ops, "clip")
  /\ pc' = "step"
  /\ UNCHANGED <<loopVars, batchVars, lossVars, optVars, files, opt_steps>>

Bump(p) == <<p[1], p[2] + 1>>

\* optimizer.step(): SGD over params_to_train (lines 71-74)
OptimizerStep(p) ==
  [encoder_cnn |-> Bump(p.encoder_cnn), f_rnn |-> Bump(p.f_rnn), b_rnn |-> Bump(p.b_rnn)]

\* a batch that applies the optimizer step twice
TrainOptStepTwice ==
  /\ pc = "step"
  /\ params' = OptimizerStep(OptimizerStep(params))
  /\ opt_steps' = opt_steps + 2
  /\ ops' = Append(ops, "step")
  /\ pc' = "fetch"
  /\ UNCHANGED <<loopVars, batchVars, lossVars, grad, last_epoch, lr, files>>

\* lines 163-177
TrainOptStep ==
  /\ pc = "step"
  /\ params' = OptimizerStep(params)
  /\ opt_steps' = opt_steps + 1
  /\ ops' = Append(ops, "step")
  /\ pc' = "fetch"
  /\ UNCHANGED <<loopVars, batchVars, lossVars, grad, last_epoch, lr, files>>

\* a save that leaves out the embedding extractor
SavedFilesNoEncoder(fs, p) ==
  LET names == {CkptName("f_rnn"), CkptName("b_rnn")}
      new == (CkptName("f_rnn") :> p.f_rnn) @@ (CkptName("b_rnn") :> p.b_rnn)
  IN  [n \in (DOMAIN fs) \cup names |-> IF n \in names THEN new[n] ELSE fs[n]]

\* torch.save of the three state_dicts (lines 183-192)
SavedFiles(fs, p) ==
  LET names == {CkptName("f_rnn"), CkptName("b_rnn"), CkptName("encoder_cnn")}
      new == (CkptName("f_rnn") :> p.f_rnn) @@ (CkptName("b_rnn") :> p.b_rnn)
               @@ (CkptName("encoder_cnn") :> p.encoder_cnn)
  IN  [n \in (DOMAIN fs) \cup names |-> IF n \in names THEN new[n] ELSE fs[n]]

\* lines 179-192
SaveCheckpoints ==
  /\ pc = "fetch" /\ phase = "train"
  /\ batch_num = TrainBatches
  /\ files' = SavedFiles(files, params)
  /\ pc' = "val_start"
  /\ UNCHANGED <<loopVars, batchVars, lossVars, grad, optVars, ops, opt_steps>>

\* lines 194-198
ValStart ==
  /\ pc = "val_start"
  /\ phase' = "val"
  /\ batch_num' = 0
  /\ ops' = <<>>
  /\ pc' = "fetch"
  /\ UNCHANGED <<epoch, batchVars, lossVars, grad, optVars, files, opt_steps>>

\* lines 199-203
ValFetch ==
  /\ pc = "fetch" /\ phase = "val"
  /\ batch_num < ValBatches
  /\ Fetch(batch_num)

\* the loops of lines 206-210 and 219-223
RECURSIVE ValInputLoop(_, _, _, _)
ValInputLoop(emb, lens, i, start) ==
  IF i > Len(lens) THEN <<>>
  ELSE <<PySlice(emb, start, start + lens[i] - 1)>>
         \o ValInputLoop(emb, lens, i + 1, start + lens[i])

RECURSIVE ValTargetLoop(_, _, _, _)
ValTargetLoop(emb, lens, i, start) ==
  IF i > Len(lens) THEN <<>>
  ELSE <<PySlice(emb, start + 1, start + lens[i])>>
         \o ValTargetLoop(emb, lens, i + 1, start + lens[i])

\* lines 205-229
ValSlice ==
  /\ pc = "slice" /\ phase = "val"
  /\ LET ins == ValInputLoop(emb_seqs, lengths, 1, 0)
         tgs == ValTargetLoop(emb_seqs, lengths, 1, 0)
     IN  /\ input_emb_list' = ins
         /\ f_input_embs' = pad_sequence(ins)
         /\ b_target_embs' = pad_sequence([i \in 1..Len(ins) |-> flip_tensor(ins[i])])
         /\ target_emb_list' = tgs
         /\ f_target_embs' = pad_sequence(tgs)
         /\ b_input_embs' = pad_sequence([i \in 1..Len(tgs) |-> flip_tensor(tgs[i])])
  /\ ops' = Append(ops, "slice")
  /\ pc' = "pack"
  /\ UNCHANGED <<loopVars, lengths, emb_seqs, seq_lengths, lossVars, grad,
                 optVars, files, opt_steps>>

\* lines 231-237
ValPack ==
  /\ pc = "pack" /\ phase = "val"
  /\ seq_lengths' = SeqLengths(lengths)
  /\ IF PackRaises(f_target_embs, SeqLengths(lengths))
     THEN /\ pc' = "aborted"
          /\ ops' = Append(ops, "raise")
          /\ UNCHANGED <<f_target_embs, b_target_embs>>
     ELSE /\ f_target_embs' = pack_padded_sequence(f_target_embs, SeqLengths(lengths))
          /\ b_target_embs' = pack_padded_sequence(b_target_embs, SeqLengths(lengths))
          /\ ops' = Append(ops, "pack")
          /\ pc' = "forward"
  /\ UNCHANGED <<loopVars, lengths, emb_seqs, input_emb_list, target_emb_list,
                 f_input_embs, b_input_embs, lossVars, grad, optVars, files,
                 opt_steps>>

\* a validation batch that also updates the parameters
ValForwardWithStep ==
  /\ pc = "forward" /\ phase = "val"
  /\ \E f \in LossVals, b \in LossVals :
       /\ f_loss' = f
       /\ b_loss' = b
       /\ all_loss' = f + b
  /\ params' = OptimizerStep(params)
  /\ ops' = Append(ops, "loss")
  /\ pc' = "fetch"
  /\ UNCHANGED <<loopVars, batchVars, grad, last_epoch, lr, files, opt_steps>>

\* lines 239-248
ValForward ==
  /\ pc = "forward" /\ phase = "val"
  /\ \E f \in LossVals, b \in LossVals :
       /\ f_loss' = f
       /\ b_loss' = b
       /\ all_loss' = f + b
  /\ ops' = Append(ops, "loss")
  /\ pc' = "fetch"
  /\ UNCHANGED <<loopVars, batchVars, grad, optVars, files, opt_steps>>

\* lines 250-252 and the epoch loop of line 104
ValEnd ==
  /\ pc = "fetch" /\ phase = "val"
  /\ batch_num = ValBatches
  /\ IF epoch < Epochs
     THEN /\ epoch' = epoch + 1
          /\ pc' = "epoch_start"
     ELSE /\ pc' = "done"
          /\ UNCHANGED epoch
  /\ UNCHANGED <<phase, batch_num, batchVars, lossVars, grad, optVars, files,
                 ops, opt_steps>>

Next ==
  \/ EpochStart
  \/ TrainFetch
  \/ TrainSlice
  \/ TrainPack
  \/ TrainForward
  \/ TrainZeroGrad
  \/ TrainBackward
  \/ TrainClip
  \/ TrainOptStep
  \/ SaveCheckpoints
  \/ ValStart
  \/ ValFetch
  \/ ValSlice
  \/ ValPack
  \/ ValForward
  \/ ValEnd

Spec == Init /\ [][Next]_vars

\* ------------------------------------------------------------ vocabulary
\* s_i: the number of garments of the outfits before outfit i
Offset(i) == Sum(SubSeq(lengths, 1, i - 1))

Outfits == 1..Len(lengths)

\* a batch as the loader promises it
WellFormed ==
  /\ lengths # <<>>
  /\ \A i \in Outfits : lengths[i] >= 2
  /\ Sum(lengths) = Len(emb_seqs)

Malformed ==
  /\ lengths # <<>>
  /\ \/ Sum(lengths) # Len(emb_seqs)
     \/ \E i \in Outfits : lengths[i] < 2

Did(op) == \E k \in 1..Len(ops) : ops[k] = op

IsPrefix(s, t) == Len(s) <= Len(t) /\ \A k \in 1..Len(s) : s[k] = t[k]

\* the valid (outfit, timestep) positions of the shifted sequences
ValidPairs == {p \in Outfits \X (1..MaxLen + 1) : p[2] <= lengths[p[1]] - 1}

\* position of (b, t) when timestep 1 of every row comes first, then timestep 2, ...
TimeMajorRank(b, t) ==
  1 + Cardinality({p \in ValidPairs : p[2] < t \/ (p[2] = t /\ p[1] < b)})

\* position of (b, t) when all of row 1 comes first, then all of row 2, ...
RowMajorRank(b, t) ==
  1 + Cardinality({p \in ValidPairs : p[1] < b \/ (p[1] = b /\ p[2] < t)})

TotalSteps == params.f_rnn[2]

\* ------------------------------------------------------------------ claims

\* C1: for a batch with all lengths >= 2 that sum to the number of embeddings,
\* forward input row i is embeddings[s_i .. s_i+L_i-2] and forward target row
\* i is embeddings[s_i+1 .. s_i+L_i-1], both of length L_i-1, in garment
\* order, with no garment of another outfit (python indices; +1 here).
C1_SplitAndShift ==
  (WellFormed /\ Did("slice")) =>
    /\ Len(input_emb_list) = Len(lengths)
    /\ Len(target_emb_list) = Len(lengths)
    /\ Len(f_input_embs) = Len(lengths)
    /\ \A i \in Outfits :
         /\ Len(input_emb_list[i]) = lengths[i] - 1
         /\ Len(target_emb_list[i]) = lengths[i] - 1
         /\ \A j \in 1..(lengths[i] - 1) :
              /\ input_emb_list[i][j] = emb_seqs[Offset(i) + j]
              /\ target_emb_list[i][j] = emb_seqs[Offset(i) + j + 1]
              /\ f_input_embs[i][j] = emb_seqs[Offset(i) + j]
              /\ pc = "pack" => f_target_embs[i][j] = emb_seqs[Offset(i) + j + 1]
              /\ {input_emb_list[i][j], target_emb_list[i][j]}
                   \subseteq {emb_seqs[k] : k \in (Offset(i) + 1)..(Offset(i) + lengths[i])}

C1_Witness ==
  /\ WellFormed /\ pc = "pack"
  /\ Len(lengths) = 2 /\ lengths[1] = 3 /\ lengths[2] = 4

\* C2: per outfit, the backward target row is the reverse of the forward
\* input and the backward input row the reverse of the forward target; the
\* valid entries of a padded backward row are at positions 0..L_i-2 and the
\* zero padding only behind them.
C2_BackwardIsReverse ==
  (WellFormed /\ Did("slice")) =>
    /\ Len(b_input_embs) = Len(lengths)
    /\ \A i \in Outfits :
         LET n == lengths[i] - 1 IN
         /\ \A j \in 1..n :
              /\ b_input_embs[i][j] = target_emb_list[i][n + 1 - j]
              /\ b_input_embs[i][j] = emb_seqs[Offset(i) + lengths[i] + 1 - j]
              /\ b_input_embs[i][j] # Pad
         /\ \A j \in (n + 1)..Len(b_input_embs[i]) : b_input_embs[i][j] = Pad
         /\ pc = "pack" =>
              /\ \A j \in 1..n :
                   /\ b_target_embs[i][j] = input_emb_list[i][n + 1 - j]
                   /\ b_target_embs[i][j] = emb_seqs[Offset(i) + lengths[i] - j]
                   /\ b_target_embs[i][j] # Pad
              /\ \A j \in (n + 1)..Len(b_target_embs[i]) : b_target_embs[i][j] = Pad

C2_Witness ==
  /\ WellFormed /\ pc = "pack"
  /\ Len(lengths) = 2 /\ lengths[1] = 4 /\ lengths[2] = 2
  /\ b_input_embs[2] = <<6, Pad, Pad>>

\* C3 (as amended): after padding removal the forward and backward targets
\* hold only valid targets, in time-major order: timestep 0 of every row in
\* row order, then timestep 1 of every row that has one, and so on.
C3_TimeMajorTargets ==
  (WellFormed /\ Did("pack")) =>
    /\ Len(f_target_embs) = Cardinality(ValidPairs)
    /\ Len(b_target_embs) = Cardinality(ValidPairs)
    /\ \A p \in ValidPairs :
         /\ f_target_embs[TimeMajorRank(p[1], p[2])] = target_emb_list[p[1]][p[2]]
         /\ f_target_embs[TimeMajorRank(p[1], p[2])] = emb_seqs[Offset(p[1]) + p[2] + 1]
         /\ b_target_embs[TimeMajorRank(p[1], p[2])]
              = emb_seqs[Offset(p[1]) + lengths[p[1]] - p[2]]
    /\ \A k \in 1..Len(f_target_embs) : f_target_embs[k] # Pad
    /\ \A k \in 1..Len(b_target_embs) : b_target_embs[k] # Pad

C3_Witness ==
  /\ WellFormed /\ Did("pack")
  /\ lengths = <<3, 3>>
  /\ f_target_embs = <<2, 5, 3, 6>>

\* C3 as stated: the compacted targets list all valid targets of row 0 in
\* timestep order, then all of row 1, and so on.
C3_RowMajorTargets ==
  (WellFormed /\ Did("pack")) =>
    /\ Len(f_target_embs) = Cardinality(ValidPairs)
    /\ Len(b_target_embs) = Cardinality(ValidPairs)
    /\ \A p \in ValidPairs :
         /\ f_target_embs[RowMajorRank(p[1], p[2])] = target_emb_list[p[1]][p[2]]
         /\ b_target_embs[RowMajorRank(p[1], p[2])]
              = emb_seqs[Offset(p[1]) + lengths[p[1]] - p[2]]

\* C4: for lengths >= 2 in any order that sum to the number of embeddings,
\* batch construction completes and both compacted target tensors have
\* sum(lengths[i] - 1) rows, with effective_lengths[i] = lengths[i] - 1.
C4_AnyOrderCompletes ==
  (WellFormed /\ (Did("pack") \/ Did("raise"))) =>
    /\ ~Did("raise")
    /\ Len(f_target_embs) = Sum(lengths) - Len(lengths)
    /\ Len(b_target_embs) = Sum(lengths) - Len(lengths)
    /\ seq_lengths = [i \in Outfits |-> lengths[i] - 1]

\* C5: if the lengths do not sum to the number of embeddings, or an outfit
\* is shorter than 2, the step raises before any per-outfit slice is taken.
C5_RejectBeforeSlicing ==
  Malformed => ~Did("slice")

\* C9: a batch with an outfit of length 1 is still processed: its row of the
\* padded tensors is all padding, it adds no compacted target, and the
\* compacted targets are those of the other outfits.
C9_SingletonProcessed ==
  (/\ lengths # <<>>
   /\ \A i \in Outfits : lengths[i] >= 1
   /\ \E i \in Outfits : lengths[i] = 1
   /\ Sum(lengths) = Len(emb_seqs)
   /\ (Did("pack") \/ Did("raise"))) =>
    /\ ~Did("raise")
    /\ \A i \in Outfits : lengths[i] = 1 =>
         \A j \in 1..Len(f_input_embs[i]) : f_input_embs[i][j] = Pad
    /\ Len(f_target_embs) = Sum(lengths) - Len(lengths)
    /\ Len(b_target_embs) = Sum(lengths) - Len(lengths)

\* C6 as stated: the k-th schedule advance comes only after the last
\* optimizer step of epoch k, so while epoch k still trains, fewer than k
\* advances have happened.
C6_AdvanceAfterTraining ==
  (phase = "train" /\ pc \notin {"epoch_start", "val_start"}
     /\ TotalSteps < epoch * TrainBatches)
    => last_epoch < epoch

\* C6 (as amended): the schedule is advanced exactly once per epoch, at the
\* start of the epoch: the k-th advance comes after the last optimizer step
\* of epoch k-1 and before the first of epoch k; every optimizer step of
\* epoch 1 uses the initial learning rate.
C6_AdvanceAtEpochStart ==
  /\ pc = "epoch_start" =>
       /\ last_epoch = epoch - 1
       /\ TotalSteps = (epoch - 1) * TrainBatches
  /\ pc # "epoch_start" =>
       /\ last_epoch = epoch
       /\ TotalSteps >= (epoch - 1) * TrainBatches
       /\ TotalSteps <= epoch * TrainBatches
  /\ (epoch = 1 /\ pc # "epoch_start") => lr = BaseLrMilli
  /\ (epoch \in {2, 3} /\ pc # "epoch_start") => 2 * lr = BaseLrMilli

C6_Witness ==
  /\ epoch = 2 /\ phase = "train" /\ pc = "fetch" /\ Did("step")
  /\ last_epoch = 2
  /\ TotalSteps = TrainBatches + 1

\* C7: between the first and the last validation batch of an epoch no
\* parameter, gradient, schedule or checkpoint changes and no zero_grad,
\* backward, clip or optimizer step runs; the batch is built and the loss
\* summed as in the train phase.
C7_ValidationFrame ==
  /\ [][(phase = "val" /\ phase' = "val") =>
          UNCHANGED <<params, grad, last_epoch, lr, files, opt_steps>>]_vars
  /\ [](phase = "val" =>
          /\ \A k \in 1..Len(ops) : ops[k] \in {"slice", "pack", "raise", "loss"}
          /\ Did("slice") =>
               /\ input_emb_list = InputLoop(emb_seqs, lengths, 1, 0)
               /\ target_emb_list = TargetLoop(emb_seqs, lengths, 1, 0)
               /\ f_input_embs = pad_sequence(input_emb_list)
               /\ b_input_embs
                    = pad_sequence([i \in Outfits |-> flip_tensor(target_emb_list[i])])
          /\ Did("loss") => all_loss = f_loss + b_loss)

C7_Witness ==
  /\ phase = "val" /\ epoch = 2 /\ Did("loss") /\ WellFormed
  /\ TotalSteps = 2 * TrainBatches

\* C8 as stated: in a training batch the gradients are zeroed, then the loss
\* is computed, then backward, clip and one optimizer step.
C8_ZeroThenLoss ==
  (phase = "train" /\ Did("pack")) =>
    IsPrefix(SubSeq(ops, 3, Len(ops)),
             <<"zero_grad", "loss", "backward", "clip", "step">>)

\* C8 (as amended): in a training batch the total loss (forward + backward,
\* a sum) is computed, then the gradients are zeroed, the loss is
\* backpropagated, the gradient norm is clipped to 0.5 and one optimizer
\* step is applied; the next batch starts only after that step, and each
\* training batch takes exactly one optimizer step.
C8_LossZeroBackwardClipStep ==
  /\ (phase = "train" /\ Did("pack")) =>
       /\ IsPrefix(ops, <<"slice", "pack", "loss", "zero_grad", "backward", "clip", "step">>)
       /\ Did("loss") => all_loss = f_loss + b_loss
       /\ pc = "step" => (grad.state = "clipped" /\ grad.norm <= ClipNormTenths)
       /\ Did("step") <=> pc \in {"fetch", "val_start"}
  /\ (phase = "train" /\ pc \in {"slice", "pack", "forward", "zero_grad", "backward", "clip", "step"}) =>
       TotalSteps = (epoch - 1) * TrainBatches + batch_num - 1
  /\ (phase = "train" /\ pc = "fetch") =>
       TotalSteps = (epoch - 1) * TrainBatches + batch_num

C8_Witness ==
  /\ phase = "train" /\ pc = "fetch" /\ batch_num = 2
  /\ ops = <<"slice", "pack", "loss", "zero_grad", "backward", "clip", "step">>
  /\ grad = [state |-> "clipped", norm |-> ClipNormTenths]
  /\ all_loss = 3

\* C10: after the train phase of an epoch and before its validation the
\* three parameter sets are written under three fixed names; from then to
\* the end of the epoch exactly three checkpoints exist, each equal to the
\* in-memory parameters of its model.
C10_ThreeCheckpoints ==
  (pc \in {"val_start", "done"} \/ phase = "val") =>
    LET k == IF pc = "epoch_start" THEN epoch - 1 ELSE epoch IN
    /\ DOMAIN files = {<<"f_rnn", comment>>, <<"b_rnn", comment>>, <<"encoder_cnn", comment>>}
    /\ Cardinality(DOMAIN files) = 3
    /\ files[<<"f_rnn", comment>>] = params.f_rnn
    /\ files[<<"b_rnn", comment>>] = params.b_rnn
    /\ files[<<"encoder_cnn", comment>>] = params.encoder_cnn
    /\ params.f_rnn = <<"f_rnn", k * TrainBatches>>

C10_Witness ==
  /\ pc = "done" /\ epoch = Epochs
  /\ files[<<"encoder_cnn", comment>>] = <<"encoder_cnn", Epochs * TrainBatches>>

====
